---- MODULE Spec2Model ----
(***************************************************************************)
(* Model of scripts/fetch_data.py: one run of main() resolves an event     *)
(* from the metadata service, then walks the event's markets in order,     *)
(* fetching the price history of each market's first token and writing    *)
(* event.json, history_<id>.json and summary.json under public/data.       *)
(* The script may be run again over the directory a previous run left.     *)
(***************************************************************************)
EXTENDS Integers, Sequences, FiniteSets, TLC

(* ---------------------------------------------------------------------- *)
(* Bounds of the model                                                    *)
(* ---------------------------------------------------------------------- *)
MaxMarkets == 2
MaxRuns == 2
MaxNow == 1

(* ---------------------------------------------------------------------- *)
(* JSON values as Python sees them after json(): a kind and a payload.    *)
(* ---------------------------------------------------------------------- *)
Absent == [k |-> "absent", v |-> ""]
JNull == [k |-> "null", v |-> ""]
JNum(s) == [k |-> "num", v |-> s]
JStr(s) == [k |-> "str", v |-> s]
JList(q) == [k |-> "list", v |-> q]
JObj(fields) == [k |-> "obj", v |-> fields]

\* Python truthiness (`if not events`, `if not clob_token_ids`, `if history and ...`)
Truthy(j) ==
    CASE j.k = "null" -> FALSE
      [] j.k = "num" -> j.v # "0"
      [] j.k = "str" -> j.v # ""
      [] j.k = "list" -> Len(j.v) > 0
      [] j.k = "obj" -> \E f \in DOMAIN j.v : j.v[f] # Absent
      [] OTHER -> FALSE

\* dict.get(key, default)
Get(obj, key, default) ==
    IF key \in DOMAIN obj.v /\ obj.v[key] # Absent THEN obj.v[key] ELSE default

\* `key in obj` for a dict
HasKey(obj, key) == key \in DOMAIN obj.v /\ obj.v[key] # Absent

T1 == JStr("t1")
T2 == JStr("t2")

ParseError == [k |-> "error", v |-> ""]

\* json.loads on the clobTokenIds texts the model draws from
Loads(text) ==
    CASE text = "[]" -> JList(<<>>)
      [] text = "[\"t2\", \"t1\"]" -> JList(<<T2, T1>>)
      [] text = "{\"a\": 1}" -> JObj([a |-> JNum("1")])
      [] text = "\"t1\"" -> JStr("t1")
      [] OTHER -> ParseError

\* first character of a Python string (s[0])
FirstChar(s) == IF s = "t1" THEN "t" ELSE IF s = "t2" THEN "t" ELSE s

\* str() of a market id inside the f-string of the history filename
Fmt(j) == IF j.k = "null" THEN "None" ELSE j.v

(* ---------------------------------------------------------------------- *)
(* What the two remote services may answer                                *)
(* ---------------------------------------------------------------------- *)
MarketObj(id, q, c, vol) ==
    JObj([id |-> id, question |-> q, clobTokenIds |-> c, volume |-> vol])

\* values of a market's clobTokenIds field: native list, JSON text, other
ClobVals ==
    { Absent, JList(<<>>), JList(<<T1, T2>>), JStr("[]"), JStr("[\"t2\", \"t1\"]"),
      JStr("oops"), JStr("{\"a\": 1}"), JStr("\"t1\""), JNum("5") }

MarketVals ==
    { MarketObj(JStr("1"), JStr("Q"), c, JNum("7")) : c \in ClobVals }
      \cup { MarketObj(i, Absent, JList(<<T1, T2>>), Absent) :
                i \in {JNum("1"), JStr("2"), Absent} }
      \cup { JNum("5") }

MarketSeqs == UNION { [1..n -> MarketVals] : n \in 0..MaxMarkets }

EventObj(ms) == JObj([slug |-> JStr("s"), markets |-> ms])

\* an HTTP exchange: transport exception, non-200 status, 200 with a body
\* that is not JSON, or 200 with a JSON body
HttpExc == [st |-> "exc", body |-> JNull]
ErrBody == JObj([error |-> JStr("bad")])
Http500 == [st |-> "status", body |-> ErrBody]
HttpBadJson == [st |-> "badjson", body |-> JNull]
HttpOk(body) == [st |-> "ok", body |-> body]

EventBodies ==
    { JList(<<EventObj(JList(ms))>>) : ms \in MarketSeqs }
      \cup { EventObj(JList(ms)) : ms \in {q \in MarketSeqs : Len(q) = 1} }
      \cup { JList(<<>>), JNull, JObj([slug |-> Absent, markets |-> Absent]),
             EventObj(Absent), EventObj(JNum("5")), JNum("5"),
             JList(<<JNum("5")>>) }

MetaResponses == {HttpExc, Http500, HttpBadJson} \cup { HttpOk(b) : b \in EventBodies }

Point == JObj([t |-> JNum("1"), p |-> JNum("0.5")])
HistObj(h, e) == JObj([history |-> h, error |-> e])

HistoryBodies ==
    { HistObj(JList(<<Point, Point>>), Absent), HistObj(JList(<<>>), Absent),
      HistObj(Absent, JStr("bad")), HistObj(Absent, Absent),
      HistObj(JNum("5"), Absent), JList(<<JStr("history")>>) }

HistoryResponses == {HttpExc, Http500} \cup { HttpOk(b) : b \in HistoryBodies }

Unset == [st |-> "unset", body |-> JNull]

(* ---------------------------------------------------------------------- *)
(* The output directory public/data                                       *)
(* ---------------------------------------------------------------------- *)
EventFile == <<"event", "">>
SummaryFile == <<"summary", "">>
HistoryFile(id) == <<"history", Fmt(id)>>
FileNames == {EventFile, SummaryFile, <<"history", "1">>, <<"history", "2">>}

\* json.dump(data, f, indent=...) into a file opened with "w"
Dump(data, indent) == [indent |-> indent, data |-> data]
NoFile == Dump(Absent, 0)
Partial == Dump([k |-> "partial", v |-> ""], 0)
Stale == Dump(JStr("stale"), 0)

InitialDirs ==
    { [f \in FileNames |-> NoFile], [f \in FileNames |-> Stale],
      [f \in FileNames |-> IF f = <<"history", "2">> THEN Stale ELSE NoFile] }

\* 14 * 24 * 3600 seconds
Lookback == 14 * 24 * 3600

VARIABLES
    metaResp,        \* what the metadata service answers
    served,          \* what the time-series service answered, per market position
    files,           \* contents of public/data
    dirExists,       \* whether public/data exists
    now,             \* int(time.time()), relative to the first run's start
    run,             \* number of the current run of main()
    pc,              \* position of main()
    err,             \* the exception that ended the run, if any
    events, event, markets, idx,
    clob_token_ids, yes_token_id, start_ts, history, stats,
    inflight,        \* HTTP requests sent and not yet answered
    log,             \* requests and file writes of the current run, in order
    prevFiles,       \* contents of public/data when the current run began
    prevErr          \* how the previous run ended

vars == << metaResp, served, files, dirExists, now, run, pc, err, events, event,
           markets, idx, clob_token_ids, yes_token_id, start_ts, history, stats,
           inflight, log, prevFiles, prevErr >>

env == << metaResp, served, files, dirExists, now >>
locals == << events, event, markets, idx, clob_token_ids, yes_token_id, start_ts,
             history, stats >>

\* the state before the script is run, the remote answers drawn from the
\* given sets (an Unset answer is drawn when the request is made)
InitWith(metas, dirs, answers) ==
    /\ metaResp \in metas
    /\ served \in answers
    /\ files \in dirs
    /\ dirExists = (\E f \in FileNames : files[f] # NoFile)
    /\ now = 0
    /\ run = 0
    /\ pc = "idle"
    /\ err = "none"
    /\ events = JNull /\ event = JNull /\ markets = JNull /\ idx = 1
    /\ clob_token_ids = JNull /\ yes_token_id = JNull /\ start_ts = 0
    /\ history = JNull /\ stats = <<>>
    /\ inflight = {}
    /\ log = <<>>
    /\ prevFiles = files
    /\ prevErr = "none"

Undrawn == [i \in 1..(MaxMarkets + 1) |-> Unset]

Init == InitWith(MetaResponses, InitialDirs, {Undrawn})

\* a smaller draw for the specifications that repeat the run or advance the
\* clock: a few markets of each kind, and the answers fixed beforehand
CoreMarkets ==
    { MarketObj(JStr("1"), JStr("Q"), JList(<<T1, T2>>), JNum("7")),
      MarketObj(JStr("2"), Absent, JStr("[\"t2\", \"t1\"]"), Absent),
      MarketObj(JNum("1"), JStr("Q"), JList(<<T2>>), JNum("7")),
      MarketObj(JStr("1"), JStr("Q"), JStr("[]"), JNum("7")),
      MarketObj(Absent, JStr("Q"), JList(<<T1, T2>>), JNum("7")) }

CoreMetas ==
    { HttpOk(JList(<<EventObj(JList(ms))>>)) :
        ms \in UNION { [1..n -> CoreMarkets] : n \in 0..MaxMarkets } }
      \cup {Http500, HttpOk(JList(<<>>))}

FixedAnswers ==
    { [i \in 1..(MaxMarkets + 1) |-> r] : r \in HistoryResponses }
      \cup { [i \in 1..(MaxMarkets + 1) |->
                IF i % 2 = 1 THEN HttpOk(HistObj(JList(<<Point, Point>>), Absent))
                ELSE r] : r \in {HttpExc, HttpOk(HistObj(JList(<<>>), Absent))} }

InitCore == InitWith(CoreMetas, InitialDirs, FixedAnswers)

(* ---------------------------------------------------------------------- *)
(* Pure helpers of the script                                             *)
(* ---------------------------------------------------------------------- *)
\* get_event_data without the status check: any body that parses is returned
get_event_data_any_status(resp) ==
    IF resp.st \in {"ok", "status"} THEN resp.body ELSE JNull

\* get_event_data: the parsed body on a 200, None on anything else
get_event_data(resp) == IF resp.st = "ok" THEN resp.body ELSE JNull

\* get_price_history: the parsed body on a 200, None on anything else
get_price_history(resp) == IF resp.st = "ok" THEN resp.body ELSE JNull

\* the token field used as it arrives, a JSON text left undecoded
NormalizeTokensNoParse(market) == Get(market, "clobTokenIds", JList(<<>>))

\* lines 75-80: clobTokenIds, json.loads of it when it is a str, [] when that raises
NormalizeTokens(market) ==
    LET c == Get(market, "clobTokenIds", JList(<<>>))
    IN  IF c.k = "str"
        THEN IF Loads(c.v) = ParseError THEN JList(<<>>) ELSE Loads(c.v)
        ELSE c

\* line 89: clob_token_ids[0] raises on a dict (KeyError) or a number (TypeError)
Index0Raises(c) ==
    CASE c.k = "obj" -> "KeyError"
      [] c.k \in {"num", "null"} -> "TypeError"
      [] OTHER -> "none"

Index0(c) == IF c.k = "str" THEN JStr(FirstChar(c.v)) ELSE c.v[1]

\* line 96: history and 'history' in history
HasHistory(h) ==
    /\ Truthy(h)
    /\ CASE h.k = "obj" -> HasKey(h, "history")
         [] h.k = "list" -> \E i \in 1..Len(h.v) : h.v[i] = JStr("history")
         [] OTHER -> FALSE

\* lines 97-98: history['history'] raises on a list, len(points) on a number
PointsRaises(h) ==
    IF h.k # "obj" THEN "TypeError"
    ELSE IF h.v["history"].k \in {"num", "null"} THEN "TypeError" ELSE "none"

\* len(points)
PointsLen(h) ==
    LET pts == h.v["history"]
    IN  IF pts.k = "list" THEN Len(pts.v) ELSE 0

\* the MarketStat record counting the keys of the response, not the points
StatEntryCountsResponse(market, token, h) ==
    [ id |-> market.v["id"],
      question |-> Get(market, "question", JStr("")),
      token_id |-> token,
      points |-> Cardinality({f \in DOMAIN h.v : h.v[f] # Absent}),
      volume |-> Get(market, "volume", JNum("0")) ]

\* lines 105-111: the MarketStat record
StatEntry(market, token, h) ==
    [ id |-> market.v["id"],
      question |-> Get(market, "question", JStr("")),
      token_id |-> token,
      points |-> PointsLen(h),
      volume |-> Get(market, "volume", JNum("0")) ]

\* a 7-day look-back
StartTsSevenDays(t) == t - 7 * 24 * 3600

\* line 92
StartTs(t) == t - Lookback

ReqEvent == [op |-> "GET_events", file |-> <<"", "">>, token |-> JNull, ts |-> 0]
ReqHistory(tok, ts) == [op |-> "GET_history", file |-> <<"", "">>, token |-> tok, ts |-> ts]
Wrote(f) == [op |-> "write", file |-> f, token |-> JNull, ts |-> 0]

Raise(e) == pc' = "crashed" /\ err' = e

\* the next iteration of `for market in markets`
NextMarket ==
    /\ idx' = idx + 1
    /\ clob_token_ids' = JNull /\ yes_token_id' = JNull /\ start_ts' = 0
    /\ history' = JNull
    /\ pc' = "loop"

\* the file opened with "a": the dump lands after what the file held
AppendTo(fs, f, content) ==
    [fs EXCEPT ![f] = IF fs[f] = NoFile THEN content
                      ELSE Dump(JList(<<fs[f].data, content.data>>), content.indent)]

\* with open(f, "w"): json.dump(...): the file holds the dump and nothing else
Overwrite(fs, f, content) == [fs EXCEPT ![f] = content]

\* open(f, "w") or json.dump raises OSError: the file is untouched or cut short
WriteFails(f) ==
    /\ files' \in {files, [files EXCEPT ![f] = Partial]}
    /\ Raise("OSError")

(* ---------------------------------------------------------------------- *)
(* The steps of main()                                                    *)
(* ---------------------------------------------------------------------- *)
\* main() is entered: its locals are fresh, the directory is as it was left
Begin ==
    /\ run' = run + 1
    /\ pc' = "get_event"
    /\ err' = "none"
    /\ prevErr' = err
    /\ prevFiles' = files
    /\ log' = <<>>
    /\ events' = JNull /\ event' = JNull /\ markets' = JNull /\ idx' = 1
    /\ clob_token_ids' = JNull /\ yes_token_id' = JNull /\ start_ts' = 0
    /\ history' = JNull /\ stats' = <<>>
    /\ UNCHANGED << env, inflight >>

\* the script is run
StartRun == pc = "idle" /\ Begin

\* the script is run again, with the remote services answering as before
Rerun == pc \in {"done", "crashed"} /\ run < MaxRuns /\ Begin

SendEventRequest ==
    /\ pc = "get_event"
    /\ inflight' = inflight \cup {ReqEvent}
    /\ log' = Append(log, ReqEvent)
    /\ pc' = "wait_event"
    /\ UNCHANGED << env, locals, run, err, prevFiles, prevErr >>

RecvEventResponse ==
    /\ pc = "wait_event"
    /\ events' = get_event_data(metaResp)
    /\ inflight' = inflight \ {ReqEvent}
    /\ pc' = "resolve"
    /\ UNCHANGED << env, event, markets, idx, clob_token_ids, yes_token_id, start_ts,
                    history, stats, run, err, log, prevFiles, prevErr >>

Resolve ==
    /\ pc = "resolve"
    /\ IF ~Truthy(events)
       THEN /\ pc' = "done"
            /\ UNCHANGED << event, markets, err >>
       ELSE IF events.k = "list" /\ Len(events.v) = 0
       THEN /\ pc' = "done"
            /\ UNCHANGED << event, markets, err >>
       ELSE LET ev == IF events.k = "list" THEN events.v[1] ELSE events
            IN  IF ev.k # "obj"
                THEN /\ Raise("AttributeError")
                     /\ event' = ev
                     /\ UNCHANGED markets
                ELSE LET ms == Get(ev, "markets", JList(<<>>))
                     IN  /\ event' = ev
                         /\ markets' = ms
                         /\ IF ms.k \in {"num", "null"}
                            THEN Raise("TypeError")
                            ELSE pc' = "makedirs" /\ UNCHANGED err
    /\ UNCHANGED << env, events, idx, clob_token_ids, yes_token_id, start_ts, history,
                    stats, run, inflight, log, prevFiles, prevErr >>

Makedirs ==
    /\ pc = "makedirs"
    /\ \/ /\ dirExists' = TRUE
          /\ pc' = "write_event"
          /\ UNCHANGED err
       \/ /\ ~dirExists
          /\ Raise("OSError")
          /\ UNCHANGED dirExists
    /\ UNCHANGED << metaResp, served, files, now, locals, run, inflight, log,
                    prevFiles, prevErr >>

\* json.dump(events, ...): the whole response instead of the event
WriteEventDumpsEvents ==
    /\ pc = "write_event"
    /\ \/ /\ files' = Overwrite(files, EventFile, Dump(events, 2))
          /\ log' = Append(log, Wrote(EventFile))
          /\ pc' = "loop"
          /\ UNCHANGED err
       \/ /\ WriteFails(EventFile)
          /\ UNCHANGED log
    /\ UNCHANGED << metaResp, served, dirExists, now, locals, run, inflight,
                    prevFiles, prevErr >>

WriteEvent ==
    /\ pc = "write_event"
    /\ \/ /\ files' = Overwrite(files, EventFile, Dump(event, 2))
          /\ log' = Append(log, Wrote(EventFile))
          /\ pc' = "loop"
          /\ UNCHANGED err
       \/ /\ WriteFails(EventFile)
          /\ UNCHANGED log
    /\ UNCHANGED << metaResp, served, dirExists, now, locals, run, inflight,
                    prevFiles, prevErr >>

LoopHead ==
    /\ pc = "loop"
    /\ IF idx > Len(markets.v)
       THEN /\ pc' = "write_summary"
            /\ UNCHANGED << idx, clob_token_ids, yes_token_id, start_ts, history, err >>
       ELSE LET market == markets.v[idx]
            IN  IF market.k # "obj"
                THEN /\ Raise("AttributeError")
                     /\ UNCHANGED << idx, clob_token_ids, yes_token_id, start_ts, history >>
                ELSE IF ~Truthy(NormalizeTokens(market))
                THEN NextMarket /\ UNCHANGED err
                ELSE /\ clob_token_ids' = NormalizeTokens(market)
                     /\ pc' = "fetch"
                     /\ UNCHANGED << idx, yes_token_id, start_ts, history, err >>
    /\ UNCHANGED << env, events, event, markets, stats, run, inflight, log,
                    prevFiles, prevErr >>

SendHistoryRequest ==
    /\ pc = "fetch"
    /\ IF Index0Raises(clob_token_ids) # "none"
       THEN /\ Raise(Index0Raises(clob_token_ids))
            /\ UNCHANGED << yes_token_id, start_ts, inflight, log >>
       ELSE /\ yes_token_id' = Index0(clob_token_ids)
            /\ start_ts' = StartTs(now)
            /\ inflight' = inflight \cup {ReqHistory(yes_token_id', start_ts')}
            /\ log' = Append(log, ReqHistory(yes_token_id', start_ts'))
            /\ pc' = "wait_history"
            /\ UNCHANGED err
    /\ UNCHANGED << env, events, event, markets, idx, clob_token_ids, history, stats,
                    run, prevFiles, prevErr >>

RecvHistoryResponse ==
    /\ pc = "wait_history"
    /\ \E r \in HistoryResponses :
          /\ served[idx] \in {Unset, r}
          /\ served' = [served EXCEPT ![idx] = r]
          /\ history' = get_price_history(r)
    /\ inflight' = inflight \ {ReqHistory(yes_token_id, start_ts)}
    /\ pc' = "check"
    /\ UNCHANGED << metaResp, files, dirExists, now, events, event, markets, idx,
                    clob_token_ids, yes_token_id, start_ts, stats, run, err, log,
                    prevFiles, prevErr >>

\* a failed fetch is tried again instead of moving on
CheckHistoryRetries ==
    /\ pc = "check"
    /\ IF ~HasHistory(history)
       THEN /\ pc' = "fetch"
            /\ UNCHANGED << idx, clob_token_ids, yes_token_id, start_ts, history, err >>
       ELSE IF PointsRaises(history) # "none"
       THEN /\ Raise(PointsRaises(history))
            /\ UNCHANGED << idx, clob_token_ids, yes_token_id, start_ts, history >>
       ELSE IF ~HasKey(markets.v[idx], "id")
       THEN /\ Raise("KeyError")
            /\ UNCHANGED << idx, clob_token_ids, yes_token_id, start_ts, history >>
       ELSE /\ pc' = "write_history"
            /\ UNCHANGED << idx, clob_token_ids, yes_token_id, start_ts, history, err >>
    /\ UNCHANGED << env, events, event, markets, stats, run, inflight, log,
                    prevFiles, prevErr >>

CheckHistory ==
    /\ pc = "check"
    /\ IF ~HasHistory(history)
       THEN NextMarket /\ UNCHANGED err
       ELSE IF PointsRaises(history) # "none"
       THEN /\ Raise(PointsRaises(history))
            /\ UNCHANGED << idx, clob_token_ids, yes_token_id, start_ts, history >>
       ELSE IF ~HasKey(markets.v[idx], "id")
       THEN /\ Raise("KeyError")
            /\ UNCHANGED << idx, clob_token_ids, yes_token_id, start_ts, history >>
       ELSE /\ pc' = "write_history"
            /\ UNCHANGED << idx, clob_token_ids, yes_token_id, start_ts, history, err >>
    /\ UNCHANGED << env, events, event, markets, stats, run, inflight, log,
                    prevFiles, prevErr >>

\* json.dump(points, f): the points instead of the raw response
WriteHistoryDumpsPoints ==
    /\ pc = "write_history"
    /\ LET market == markets.v[idx]
           f == HistoryFile(market.v["id"])
       IN  \/ /\ files' = Overwrite(files, f, Dump(history.v["history"], 0))
              /\ log' = Append(log, Wrote(f))
              /\ stats' = Append(stats, StatEntry(market, yes_token_id, history))
              /\ NextMarket
              /\ UNCHANGED err
           \/ /\ WriteFails(f)
              /\ UNCHANGED << log, stats, idx, clob_token_ids, yes_token_id, start_ts,
                              history >>
    /\ UNCHANGED << metaResp, served, dirExists, now, events, event, markets, run,
                    inflight, prevFiles, prevErr >>

WriteHistory ==
    /\ pc = "write_history"
    /\ LET market == markets.v[idx]
           f == HistoryFile(market.v["id"])
       IN  \/ /\ files' = Overwrite(files, f, Dump(history, 0))
              /\ log' = Append(log, Wrote(f))
              /\ stats' = Append(stats, StatEntry(market, yes_token_id, history))
              /\ NextMarket
              /\ UNCHANGED err
           \/ /\ WriteFails(f)
              /\ UNCHANGED << log, stats, idx, clob_token_ids, yes_token_id, start_ts,
                              history >>
    /\ UNCHANGED << metaResp, served, dirExists, now, events, event, markets, run,
                    inflight, prevFiles, prevErr >>

WriteSummary ==
    /\ pc = "write_summary"
    /\ \/ /\ files' = Overwrite(files, SummaryFile, Dump(JList(stats), 2))
          /\ log' = Append(log, Wrote(SummaryFile))
          /\ pc' = "done"
          /\ UNCHANGED err
       \/ /\ WriteFails(SummaryFile)
          /\ UNCHANGED log
    /\ UNCHANGED << metaResp, served, dirExists, now, locals, run, inflight,
                    prevFiles, prevErr >>

\* wall-clock time passes while a request is outstanding
Tick ==
    /\ inflight # {}
    /\ now < MaxNow
    /\ now' = now + 1
    /\ UNCHANGED << metaResp, served, files, dirExists, run, pc, err, locals, inflight,
                    log, prevFiles, prevErr >>

Step ==
    \/ SendEventRequest \/ RecvEventResponse \/ Resolve \/ Makedirs \/ WriteEvent
    \/ LoopHead \/ SendHistoryRequest \/ RecvHistoryResponse \/ CheckHistory
    \/ WriteHistory \/ WriteSummary

Next == StartRun \/ Step

\* one run of the script
Spec == Init /\ [][Next]_vars

\* runs of the script repeated over the same directory
RerunSpec == InitCore /\ [][Next \/ Rerun]_vars

\* one run of the script, with the clock advancing
ClockSpec == InitCore /\ [][Next \/ Tick]_vars

\* the interpreter keeps executing main() once it is started, and every
\* request is answered; the run starts in a fresh directory
InitFresh == InitWith(MetaResponses, {[f \in FileNames |-> NoFile]}, {Undrawn})

FairSpec == InitFresh /\ [][Next]_vars /\ WF_vars(Next)

(* ---------------------------------------------------------------------- *)
(* Properties                                                             *)
(* ---------------------------------------------------------------------- *)
MarketsOf == IF markets.k = "list" THEN markets.v ELSE <<>>
HistReqs == SelectSeq(log, LAMBDA e : e.op = "GET_history")
HistWrites == SelectSeq(log, LAMBDA e : e.op = "write" /\ e.file[1] = "history")
SummaryWritten == \E i \in DOMAIN log : log[i] = Wrote(SummaryFile)
EventWritten == \E i \in DOMAIN log : log[i] = Wrote(EventFile)
Terminated == pc \in {"done", "crashed"}
PastResolve == pc \notin {"idle", "get_event", "wait_event", "resolve"}

\* history retrieval succeeded for market m given the service's answer:
\* a non-empty normalized token list and a response holding a 'history' key
FetchSucceeded(m, resp) ==
    /\ m.k = "obj"
    /\ Truthy(NormalizeTokens(m))
    /\ resp.st = "ok"
    /\ resp.body.k = "obj"
    /\ HasKey(resp.body, "history")

FirstToken(toks) == IF toks.k = "list" THEN toks.v[1] ELSE JStr(FirstChar(toks.v))

ExpectedEntry(m, resp) ==
    [ id |-> m.v["id"],
      question |-> IF HasKey(m, "question") THEN m.v["question"] ELSE JStr(""),
      token_id |-> FirstToken(NormalizeTokens(m)),
      points |-> IF resp.body.v["history"].k = "list"
                 THEN Len(resp.body.v["history"].v) ELSE -1,
      volume |-> IF HasKey(m, "volume") THEN m.v["volume"] ELSE JNum("0") ]

RECURSIVE ExpectedSummary(_, _, _)
ExpectedSummary(ms, answers, i) ==
    IF i > Len(ms) THEN <<>>
    ELSE (IF FetchSucceeded(ms[i], answers[i])
          THEN <<ExpectedEntry(ms[i], answers[i])>> ELSE <<>>)
         \o ExpectedSummary(ms, answers, i + 1)

C2_OnlyPersistenceErrorsHalt == pc = "crashed" => err = "OSError"

NoEvent ==
    \/ metaResp.st \in {"exc", "status"}
    \/ metaResp.st = "ok" /\ metaResp.body = JList(<<>>)

\* C3: when resolution yields no event (empty array, non-200 status, transport
\* exception) the run ends normally having issued only the metadata request
\* and having created or changed no file.
C3_NoEventNoArtifacts ==
    (NoEvent /\ PastResolve) =>
        /\ pc = "done"
        /\ err = "none"
        /\ files = prevFiles
        /\ dirExists = (\E f \in FileNames : prevFiles[f] # NoFile)
        /\ log = <<ReqEvent>>
        /\ inflight = {}

C3_Witness ==
    /\ pc = "done"
    /\ metaResp = HttpOk(JList(<<>>))
    /\ \A f \in FileNames : files[f] = NoFile
    /\ ~dirExists

\* the clobTokenIds values the claim names: absent, an empty list, the text
\* "[]", a text that does not parse
SkippedTokens(m) ==
    /\ m.k = "obj"
    /\ \/ m.v["clobTokenIds"] \in {Absent, JList(<<>>), JStr("[]")}
       \/ m.v["clobTokenIds"].k = "str" /\ Loads(m.v["clobTokenIds"].v) = ParseError

\* C4: a market whose clobTokenIds is absent, empty, "[]" or unparseable
\* causes no request, no file write and no summary entry, and the loop moves
\* on to the next market with everything else as it was.
C4_SkippedMarketLeavesNoTrace ==
    [][ (pc = "loop" /\ idx <= Len(MarketsOf) /\ SkippedTokens(MarketsOf[idx])) =>
            /\ pc' = "loop"
            /\ idx' = idx + 1
            /\ UNCHANGED << files, stats, log, inflight, served, err, now, markets,
                            event >> ]_vars

\* a skipped first market, and the second market still fetched and summarised
C4_Witness ==
    /\ pc = "done"
    /\ Len(MarketsOf) = 2
    /\ SkippedTokens(MarketsOf[1])
    /\ MarketsOf[1].v["clobTokenIds"] = JStr("oops")
    /\ Len(stats) = 1
    /\ Len(HistReqs) = 1

HistFileNames == {f \in FileNames : f[1] = "history"}

\* the markets of this run whose fetched history belongs in file f
FetchedInto(f) ==
    { i \in 1..Len(MarketsOf) :
        /\ FetchSucceeded(MarketsOf[i], served[i])
        /\ <<"history", MarketsOf[i].v["id"].v>> = f }

Last(S) == CHOOSE i \in S : \A j \in S : j <= i

\* C5 as stated: after a completed run the directory holds a history file for
\* exactly the markets fetched in that run, each with that market's response,
\* whatever the directory held before.
C5_ExactlyTheFetchedHistoryFiles ==
    (pc = "done" /\ SummaryWritten) =>
        \A f \in HistFileNames :
            IF FetchedInto(f) = {} THEN files[f] = NoFile
            ELSE files[f] = Dump(served[Last(FetchedInto(f))].body, 0)

\* C5 amended: after a completed run every history file written in the run
\* holds the raw response of the last successfully fetched market with that
\* file name, and every other history file is as it was before the run.
C5_HistoryFilesWrittenOrUntouched ==
    pc = "done" =>
        \A f \in HistFileNames :
            IF FetchedInto(f) = {} THEN files[f] = prevFiles[f]
            ELSE files[f] = Dump(served[Last(FetchedInto(f))].body, 0)

\* history_1.json written by this run beside a stale history_2.json
C5_Witness ==
    /\ pc = "done"
    /\ FetchedInto(<<"history", "1">>) # {}
    /\ FetchedInto(<<"history", "2">>) = {}
    /\ files[<<"history", "2">>] = Stale
    /\ files[<<"history", "1">>] \notin {Stale, NoFile}

\* C6: a run repeated with the same remote answers leaves every file as the
\* previous run left it, each written file holding one dump and nothing more
\* (no file-system failure in either run).
C6_RerunIdempotent ==
    (run >= 2 /\ Terminated /\ err # "OSError" /\ prevErr # "OSError") =>
        /\ files = prevFiles
        /\ EventWritten => files[EventFile] = Dump(event, 2)
        /\ SummaryWritten => files[SummaryFile] = Dump(JList(stats), 2)
        /\ \A i \in DOMAIN HistWrites :
              \E j \in 1..Len(MarketsOf) :
                  files[HistWrites[i].file] = Dump(served[j].body, 0)

C6_Witness ==
    /\ run = 2
    /\ pc = "done"
    /\ prevErr = "none"
    /\ Len(stats) >= 1
    /\ SummaryWritten
    /\ files = prevFiles

\* C7 as stated: every time-series request of a run carries the same startTs.
C7_SameStartTsWithinRun ==
    \A i, j \in DOMAIN HistReqs : HistReqs[i].ts = HistReqs[j].ts

\* C7 amended: each request carries the clock reading at the moment it is
\* made minus 14 days, so later requests never carry an earlier startTs and
\* none carries one later than now minus 14 days.
C7_StartTsIsClockAtRequest ==
    /\ [][ (pc = "fetch" /\ pc' = "wait_history") =>
              /\ start_ts' = now - 1209600
              /\ Len(log') = Len(log) + 1
              /\ log'[Len(log')].op = "GET_history"
              /\ log'[Len(log')].ts = now - 1209600 ]_vars
    /\ [](\A i, j \in DOMAIN HistReqs :
              i <= j => /\ HistReqs[i].ts <= HistReqs[j].ts
                        /\ HistReqs[j].ts <= now - 1209600)

\* two requests of one run, the second with a later startTs
C7_Witness ==
    /\ Len(HistReqs) = 2
    /\ HistReqs[1].ts < HistReqs[2].ts

ResolvedEventOf(resp) ==
    IF resp.body.k = "list" THEN resp.body.v[1] ELSE resp.body

InMarketLoop ==
    pc \in {"loop", "fetch", "wait_history", "check", "write_history", "write_summary"}

\* C8: event.json, holding the full event, is written before the first
\* time-series request and before any other file, and from then on holds the
\* event whatever happens to the markets.
C8_EventFileFirst ==
    /\ \A i \in DOMAIN log :
          (log[i].op = "GET_history" \/ (log[i].op = "write" /\ log[i].file # EventFile))
              => \E j \in 1..(i - 1) : log[j] = Wrote(EventFile)
    /\ (InMarketLoop \/ (pc = "done" /\ Truthy(events))) => EventWritten
    /\ EventWritten => files[EventFile] = Dump(ResolvedEventOf(metaResp), 2)

\* two markets fetched, one failing and one succeeding, from a list response
C8_Witness ==
    /\ pc = "done"
    /\ metaResp.body.k = "list"
    /\ Len(HistReqs) = 2
    /\ Len(stats) = 1
    /\ EventWritten

SummaryWrites == SelectSeq(log, LAMBDA e : e = Wrote(SummaryFile))

\* C9: when an event is resolved and no file-system write fails, the run ends
\* normally with summary.json written exactly once, as the last thing it does.
C9_SummaryWrittenOnceAtEnd ==
    (Terminated /\ event.k = "obj" /\ markets.k = "list" /\ err # "OSError") =>
        /\ pc = "done"
        /\ Len(SummaryWrites) = 1
        /\ log[Len(log)] = Wrote(SummaryFile)
        /\ files[SummaryFile] = Dump(JList(stats), 2)

\* a market is asked for when its normalized token list is a non-empty sequence
Requests(m) ==
    /\ m.k = "obj"
    /\ Truthy(NormalizeTokens(m))
    /\ NormalizeTokens(m).k \in {"list", "str"}

RECURSIVE ExpectedTokens(_, _)
ExpectedTokens(ms, n) ==
    IF n = 0 THEN <<>>
    ELSE ExpectedTokens(ms, n - 1)
         \o (IF Requests(ms[n]) THEN <<FirstToken(NormalizeTokens(ms[n]))>> ELSE <<>>)

RequestedTokens == [i \in DOMAIN HistReqs |-> HistReqs[i].token]

IsPrefix(a, b) == Len(a) <= Len(b) /\ a = SubSeq(b, 1, Len(a))

\* the markets whose request point the loop has passed
Reached == IF pc \in {"wait_history", "check", "write_history"} THEN idx ELSE idx - 1

C10_Requests ==
    /\ Len(SelectSeq(log, LAMBDA e : e.op = "GET_events"))
          = (IF pc \in {"idle", "get_event"} THEN 0 ELSE 1)
    /\ HistReqs # <<>> => log[1] = ReqEvent
    /\ IsPrefix(RequestedTokens, ExpectedTokens(MarketsOf, Len(MarketsOf)))
    /\ (InMarketLoop \/ (pc = "done" /\ Truthy(events)))
          => RequestedTokens = ExpectedTokens(MarketsOf, Reached)
    /\ Cardinality(inflight) <= 1
    /\ inflight # {} <=> pc \in {"wait_event", "wait_history"}

====
